---- MODULE Spec2Model ----
(***************************************************************************)
(* PageRank (pagerank.py): transition_model, sample_pagerank,              *)
(* iterate_pagerank and get_links, over Python floats.                     *)
(*                                                                         *)
(* A Python float is an IEEE-754 binary64.  Every value the program        *)
(* computes is a non-negative, normal, finite float, so a float is         *)
(* modelled as a pair <<m, e>> of value m * 2^e, where m is a natural      *)
(* number with exactly Prec significant bits (or zero).  The significand   *)
(* does not fit a machine integer of TLC, so naturals are                  *)
(* little-endian sequences of limbs in base Base.  Each arithmetic         *)
(* operation computes the exact result and rounds it to nearest, ties to   *)
(* even, as the hardware does.                                             *)
(***************************************************************************)
EXTENDS Integers, Sequences, FiniteSets, TLC

\* ------------------------------------------------------------------------
\* Naturals of arbitrary size
\*
\* The operations are functions, not operators: a function is applied to
\* the values of its arguments, so an argument is computed once however
\* often the body uses it.
\* ------------------------------------------------------------------------
LimbBits == 14
Base == 2^LimbBits

Big == Seq(Nat)

Tl(a) == IF a = <<>> THEN a ELSE Tail(a)
Hd(a) == IF a = <<>> THEN 0 ELSE Head(a)
Limb(a, k) == IF k <= Len(a) THEN a[k] ELSE 0
Min(a, b) == IF a < b THEN a ELSE b

\* a without its leading zero limbs
BTrim[a \in Big] ==
    IF a = <<>> THEN a
    ELSE IF a[Len(a)] = 0 THEN BTrim[SubSeq(a, 1, Len(a) - 1)]
    ELSE a

BFromInt[k \in Nat] ==
    IF k = 0 THEN <<>> ELSE <<k % Base>> \o BFromInt[k \div Base]

BAddC[a \in Big, b \in Big, c \in Nat] ==
    IF a = <<>> /\ b = <<>> THEN (IF c = 0 THEN <<>> ELSE <<c>>)
    ELSE LET s == Hd(a) + Hd(b) + c
         IN  <<s % Base>> \o BAddC[Tl(a), Tl(b), s \div Base]

BAdd[a \in Big, b \in Big] == BAddC[a, b, 0]

\* a - b - c for a >= b + c
BSubC[a \in Big, b \in Big, c \in Nat] ==
    IF a = <<>> THEN <<>>
    ELSE LET s == Hd(a) - Hd(b) - c
         IN  IF s < 0 THEN <<s + Base>> \o BSubC[Tl(a), Tl(b), 1]
             ELSE <<s>> \o BSubC[Tl(a), Tl(b), 0]

BSub[a \in Big, b \in Big] == BTrim[BSubC[a, b, 0]]

\* -1, 0, 1 as a < b, a = b, a > b on the limbs 1..k of a and b
BCmpTop[a \in Big, b \in Big, k \in Nat] ==
    IF k = 0 THEN 0
    ELSE IF a[k] < b[k] THEN -1
    ELSE IF a[k] > b[k] THEN 1
    ELSE BCmpTop[a, b, k - 1]

\* -1, 0, 1 as a < b, a = b, a > b (a, b without leading zero limbs)
BCmp[a \in Big, b \in Big] ==
    IF Len(a) < Len(b) THEN -1
    ELSE IF Len(a) > Len(b) THEN 1
    ELSE BCmpTop[a, b, Len(a)]

\* a * k + c for a k below Base
BMulSmallC[a \in Big, k \in Nat, c \in Nat] ==
    IF a = <<>> THEN (IF c = 0 THEN <<>> ELSE <<c>>)
    ELSE LET s == Head(a) * k + c
         IN  <<s % Base>> \o BMulSmallC[Tail(a), k, s \div Base]

BMulSmall[a \in Big, k \in Nat] == BTrim[BMulSmallC[a, k, 0]]

BMul[a \in Big, b \in Big] ==
    IF b = <<>> \/ a = <<>> THEN <<>>
    ELSE BAdd[BMulSmall[a, Head(b)], BTrim[<<0>> \o BMul[a, Tail(b)]]]

\* floor(a / k) for a k below Base, r the remainder carried in from above
BDivSmall[a \in Big, k \in Nat, r \in Nat] ==
    IF a = <<>> THEN <<>>
    ELSE LET cur == r * Base + a[Len(a)]
         IN  BDivSmall[SubSeq(a, 1, Len(a) - 1), k, cur % k] \o <<cur \div k>>

\* a * 2^k
BShl[a \in Big, k \in Nat] ==
    BTrim[[j \in 1..(k \div LimbBits) |-> 0] \o BMulSmall[a, 2^(k % LimbBits)]]

\* floor(a / 2^k)
BShr[a \in Big, k \in Nat] ==
    IF k \div LimbBits >= Len(a) THEN <<>>
    ELSE BTrim[BDivSmall[SubSeq(a, k \div LimbBits + 1, Len(a)),
                         2^(k % LimbBits), 0]]

IntBits[x \in Nat] == IF x = 0 THEN 0 ELSE 1 + IntBits[x \div 2]

\* the number of bits of a
BBits[a \in Big] ==
    IF a = <<>> THEN 0 ELSE LimbBits * (Len(a) - 1) + IntBits[a[Len(a)]]

BOdd[a \in Big] == a # <<>> /\ a[1] % 2 = 1

\* ------------------------------------------------------------------------
\* Exact dyadic values <<m, e>> = m * 2^e, m >= 0, and their rounding
\* ------------------------------------------------------------------------
Prec == 53

Dyadic == Big \X Int

XZero == <<(<<>>), 0>>

XIsZero(x) == x[1] = <<>>

\* the significand of x at exponent e <= x[2]
XAt[x \in Dyadic, e \in Int] == BShl[x[1], x[2] - e]

XAdd[x \in Dyadic, y \in Dyadic] ==
    IF XIsZero(x) THEN y
    ELSE IF XIsZero(y) THEN x
    ELSE <<BAdd[XAt[x, Min(x[2], y[2])], XAt[y, Min(x[2], y[2])]],
           Min(x[2], y[2])>>

XCmp[x \in Dyadic, y \in Dyadic] ==
    IF XIsZero(x) THEN (IF XIsZero(y) THEN 0 ELSE -1)
    ELSE IF XIsZero(y) THEN 1
    ELSE BCmp[XAt[x, Min(x[2], y[2])], XAt[y, Min(x[2], y[2])]]

\* x - y for x >= y
XSub[x \in Dyadic, y \in Dyadic] ==
    IF XIsZero(y) THEN x
    ELSE <<BSub[XAt[x, Min(x[2], y[2])], XAt[y, Min(x[2], y[2])]],
           Min(x[2], y[2])>>

XAbsDiff[x \in Dyadic, y \in Dyadic] ==
    IF XCmp[x, y] >= 0 THEN XSub[x, y] ELSE XSub[y, x]

XMul[x \in Dyadic, y \in Dyadic] == <<BMul[x[1], y[1]], x[2] + y[2]>>

\* <<q, e>> with q of at most Prec + 1 bits, cut to Prec bits
Renorm[q \in Big, e \in Int] ==
    IF BBits[q] > Prec THEN <<BShr[q, 1], e + 1>> ELSE <<q, e>>

\* m * 2^e = (q + r / 2^s) * 2^(e + s) with r < 2^s, plus, when sticky, a
\* positive amount below 2^e: to nearest, ties to even
RoundCut[q \in Big, r \in Big, s \in Nat, e \in Int, sticky \in BOOLEAN] ==
    LET c == BCmp[r, BShl[<<1>>, s - 1]]
    IN  IF c > 0 \/ (c = 0 /\ (sticky \/ BOdd[q]))
        THEN Renorm[BAdd[q, <<1>>], e + s]
        ELSE <<q, e + s>>

\* m of more than Prec bits, q its top Prec bits
RoundTop[m \in Big, q \in Big, s \in Nat, e \in Int, sticky \in BOOLEAN] ==
    RoundCut[q, BSub[m, BShl[q, s]], s, e, sticky]

\* Round m * 2^e (plus, when sticky, a positive amount below 2^e) to Prec
\* significant bits, to nearest, ties to even.
Round[m \in Big, e \in Int, sticky \in BOOLEAN] ==
    IF m = <<>> THEN XZero
    ELSE IF BBits[m] <= Prec
    THEN <<BShl[m, Prec - BBits[m]], e - (Prec - BBits[m])>>
    ELSE RoundTop[m, BShr[m, BBits[m] - Prec], BBits[m] - Prec, e, sticky]

RoundX[z \in Dyadic] == Round[z[1], z[2], FALSE]

\* ------------------------------------------------------------------------
\* Float operations
\* ------------------------------------------------------------------------
FromInt[k \in Nat] == Round[BFromInt[k], 0, FALSE]

FAdd[x \in Dyadic, y \in Dyadic] == RoundX[XAdd[x, y]]

\* x - y for x >= y
FSub[x \in Dyadic, y \in Dyadic] == RoundX[XSub[x, y]]

\* abs(x - y)
FAbsDiff[x \in Dyadic, y \in Dyadic] == RoundX[XAbsDiff[x, y]]

FMul[x \in Dyadic, y \in Dyadic] == RoundX[XMul[x, y]]

\* The next quotient limb t = floor(r1 / d) for r1 < d * Base and a d whose
\* top limb is at least Base / 2: est, from the two top limbs of r1 and the
\* top limb of d, is never too low and at most 2 too high.
QuotLimb[r1 \in Big, d \in Big, est \in Nat] ==
    IF BCmp[BMulSmall[d, est], r1] <= 0 THEN est
    ELSE IF BCmp[BMulSmall[d, est - 1], r1] <= 0 THEN est - 1
    ELSE est - 2

\* One step of long division by d: <<q, r>> with r < d and r * Base = r1
\* becomes <<q * Base + t, r1 - t * d>>.
DivLimb[q \in Big, r1 \in Big, d \in Big, t \in Nat] ==
    <<BTrim[<<t>> \o q], BSub[r1, BMulSmall[d, t]]>>

DivStep[q \in Big, r1 \in Big, d \in Big] ==
    DivLimb[q, r1, d,
            QuotLimb[r1, d,
                     Min(Base - 1,
                         (Limb(r1, Len(d) + 1) * Base + Limb(r1, Len(d)))
                             \div d[Len(d)])]]

DivSteps[s \in Big \X Big, d \in Big, k \in Nat] ==
    IF k = 0 THEN s
    ELSE DivSteps[DivStep[s[1], IF s[2] = <<>> THEN <<>> ELSE <<0>> \o s[2], d],
                  d, k - 1]

\* The limbs of a significand, and the shift that fills its top limb
SigLimbs == (Prec + LimbBits - 1) \div LimbBits
SigShift == SigLimbs * LimbBits - Prec

\* <<floor(a * Base^SigLimbs / d), the remainder>>
Quotient[a \in Big, d \in Big] ==
    IF BCmp[a, d] >= 0 THEN DivSteps[<< <<1>>, BSub[a, d] >>, d, SigLimbs]
    ELSE DivSteps[<< <<>>, a >>, d, SigLimbs]

RoundQuotient[qr \in Big \X Big, e \in Int] == Round[qr[1], e, qr[2] # <<>>]

\* x / y for y > 0 (x and y normalised): the quotient of the significands to
\* SigLimbs limbs after the point, the remainder deciding the rounding.
FDiv[x \in Dyadic, y \in Dyadic] ==
    IF XIsZero(x) THEN XZero
    ELSE RoundQuotient[Quotient[BShl[x[1], SigShift], BShl[y[1], SigShift]],
                       x[2] - y[2] - SigLimbs * LimbBits]

FLt[x \in Dyadic, y \in Dyadic] == XCmp[x, y] < 0

\* A decimal literal num/den of the source: the float nearest to it
Lit(num, den) == FDiv[FromInt[num], FromInt[den]]

One == FromInt[1]

\* The exact sum of the floats f[1], ..., f[k] (no rounding)
RECURSIVE XSum(_, _)
XSum(f, k) == IF k = 0 THEN XZero ELSE XAdd[XSum(f, k - 1), f[k]]

\* ------------------------------------------------------------------------
\* Inputs
\* ------------------------------------------------------------------------
MaxPages == 3
MaxLinks == 3
MaxWalkPages == 2
MaxWalkLinks == 2
MaxSamples == 6

DAMPING == Lit(85, 100)

Dampings == {DAMPING, Lit(1, 2)}

\* len(corpus)
NumPages(c) == Cardinality(DOMAIN c)

LinkCount(c) ==
    Cardinality({pq \in (DOMAIN c) \X (DOMAIN c) : pq[2] \in c[pq[1]]})

\* The corpora crawl() can return with at most maxPages pages and maxLinks
\* links: page k is the k-th key of the dictionary, a page links only to
\* other pages of the corpus and never to itself.
Corpora(maxPages, maxLinks) ==
    UNION {{c \in [1..N -> SUBSET (1..N)] :
               /\ \A p \in 1..N : p \notin c[p]
               /\ LinkCount(c) <= maxLinks} : N \in 0..maxPages}

\* ------------------------------------------------------------------------
\* pagerank.py
\* ------------------------------------------------------------------------
\* transition_model with the linked pages' share overwriting the base share
\* (= for +=)
transition_model_overwrite(c, p, d) ==
    IF c[p] = {}
    THEN [key \in DOMAIN c |-> FDiv[One, FromInt[NumPages(c)]]]
    ELSE [key \in DOMAIN c |->
            IF key \in c[p]
            THEN FDiv[d, FromInt[Cardinality(c[p])]]
            ELSE FDiv[FSub[One, d], FromInt[NumPages(c)]]]

\* transition_model without the branch for a page that has no links
transition_model_no_sink(c, p, d) ==
    [key \in DOMAIN c |->
        LET base == FDiv[FSub[One, d], FromInt[NumPages(c)]]
        IN  IF key \in c[p]
            THEN FAdd[base, FDiv[d, FromInt[Cardinality(c[p])]]]
            ELSE base]

transition_model(c, p, d) ==
    IF c[p] = {}
    THEN [key \in DOMAIN c |-> FDiv[One, FromInt[NumPages(c)]]]
    ELSE [key \in DOMAIN c |->
            LET base == FDiv[FSub[One, d], FromInt[NumPages(c)]]
            IN  IF key \in c[p]
                THEN FAdd[base, FDiv[d, FromInt[Cardinality(c[p])]]]
                ELSE base]

\* The pages among the first k keys that link to p, in key order
RECURSIVE LinksUpTo(_, _, _)
LinksUpTo(p, c, k) ==
    IF k = 0 THEN <<>>
    ELSE IF p \in c[k] THEN Append(LinksUpTo(p, c, k - 1), k)
    ELSE LinksUpTo(p, c, k - 1)

\* The pages among the first k keys that link to some page, in key order
RECURSIVE LinkingUpTo(_, _, _)
LinkingUpTo(p, c, k) ==
    IF k = 0 THEN <<>>
    ELSE IF c[k] # {} THEN Append(LinkingUpTo(p, c, k - 1), k)
    ELSE LinkingUpTo(p, c, k - 1)

\* get_links with the test for the page dropped (corpus[key] for
\* page in corpus[key])
get_links_any(p, c) == LinkingUpTo(p, c, NumPages(c))

get_links(p, c) == LinksUpTo(p, c, NumPages(c))

\* itertools.accumulate(weights), as random.choices computes it
RECURSIVE Accumulate(_, _)
Accumulate(w, k) ==
    IF k = 0 THEN XZero ELSE FAdd[Accumulate(w, k - 1), w[k]]

\* random.choices(population, weights)[0]: the k-th page is drawn when the
\* random point falls in [cum[k-1], cum[k]), which is possible when that
\* interval is not empty.
Choices(w) ==
    {k \in DOMAIN w : FLt[Accumulate(w, k - 1), Accumulate(w, k)]}

\* The loop over links of iterate_pagerank: acc is new_page_rank
RECURSIVE AddLinks(_, _, _, _, _)
AddLinks(acc, links, c, d, ranks) ==
    IF links = <<>> THEN acc
    ELSE LET link == Head(links)
             term == FMul[d, FDiv[ranks[link], FromInt[Cardinality(c[link])]]]
         IN  AddLinks(FAdd[acc, term], Tail(links), c, d, ranks)

NewPageRank(p, c, d, ranks) ==
    AddLinks(FDiv[FSub[One, d], FromInt[NumPages(c)]], get_links(p, c), c, d, ranks)

\* step with the count off by one
step_off_by_one(k) == FDiv[One, FromInt[k + 1]]

\* step = 1 / n of sample_pagerank, for n > 0
step(k) == FDiv[One, FromInt[k]]

Epsilon == Lit(1, 1000)

SmallChange(old, new) == FLt[FAbsDiff[old, new], Epsilon]

VARIABLES
    fn,               \* the function called
    pc,               \* where the call is: "start", a loop label, "done", "error"
    corpus,
    damping_factor,
    n,                \* sample_pagerank's n
    page,             \* transition_model's page; the page of iterate's for loop
    distribution,     \* the value transition_model returns
    page_ranks,
    current_page,
    i,                \* the loop counter of sample_pagerank
    difference,
    visits,           \* history: how many times each tally was incremented
    start_page,       \* history: the page the walk started on
    sweep_start,      \* history: page_ranks when the current sweep began
    moved,            \* history: pages of the current sweep changed by >= 0.001
    updated           \* history: pages assigned at least once

vars == <<fn, pc, corpus, damping_factor, n, page, distribution, page_ranks,
          current_page, i, difference, visits, start_page, sweep_start,
          moved, updated>>

NoHistory ==
    /\ visits = <<>> /\ start_page = 0
    /\ sweep_start = <<>> /\ moved = {} /\ updated = {}

\* ---- transition_model --------------------------------------------------
InitTM ==
    /\ fn = "transition_model" /\ pc = "start"
    /\ corpus \in Corpora(MaxPages, MaxLinks)
    /\ damping_factor \in Dampings
    /\ page \in 1..MaxPages
    /\ n = 0 /\ distribution = <<>> /\ page_ranks = <<>>
    /\ current_page = 0 /\ i = 0 /\ difference = FALSE
    /\ NoHistory

\* corpus[page] of a page that is no key
TMKeyError ==
    /\ fn = "transition_model" /\ pc = "start"
    /\ page \notin DOMAIN corpus
    /\ pc' = "error"
    /\ UNCHANGED <<fn, corpus, damping_factor, n, page, distribution,
                   page_ranks, current_page, i, difference, visits,
                   start_page, sweep_start, moved, updated>>

TMReturn ==
    /\ fn = "transition_model" /\ pc = "start"
    /\ page \in DOMAIN corpus
    /\ distribution' = transition_model(corpus, page, damping_factor)
    /\ pc' = "done"
    /\ UNCHANGED <<fn, corpus, damping_factor, n, page, page_ranks,
                   current_page, i, difference, visits, start_page,
                   sweep_start, moved, updated>>

NextTM == TMKeyError \/ TMReturn

SpecTM == InitTM /\ [][NextTM]_vars

\* ---- sample_pagerank ----------------------------------------------------
InitSample ==
    /\ fn = "sample_pagerank" /\ pc = "start"
    /\ corpus \in Corpora(MaxWalkPages, MaxWalkLinks)
    /\ damping_factor = DAMPING
    /\ n \in -1..MaxSamples
    /\ page = 0 /\ distribution = <<>> /\ page_ranks = <<>>
    /\ current_page = 0 /\ i = 0 /\ difference = FALSE
    /\ NoHistory

\* random.choice of an empty list, or 1 / n for n = 0
SampleError ==
    /\ fn = "sample_pagerank" /\ pc = "start"
    /\ DOMAIN corpus = {} \/ n = 0
    /\ pc' = "error"
    /\ UNCHANGED <<fn, corpus, damping_factor, n, page, distribution,
                   page_ranks, current_page, i, difference, visits,
                   start_page, sweep_start, moved, updated>>

SampleStart ==
    /\ fn = "sample_pagerank" /\ pc = "start"
    /\ DOMAIN corpus # {} /\ n # 0
    /\ page_ranks' = [key \in DOMAIN corpus |-> XZero]
    /\ visits' = [key \in DOMAIN corpus |-> 0]
    /\ current_page' \in DOMAIN corpus
    /\ start_page' = current_page'
    /\ i' = 0
    /\ pc' = "loop"
    /\ UNCHANGED <<fn, corpus, damping_factor, n, page, distribution,
                   difference, sweep_start, moved, updated>>

\* One pass of the loop over range(n)
SampleStep ==
    /\ fn = "sample_pagerank" /\ pc = "loop"
    /\ i < n
    /\ page_ranks' = [page_ranks EXCEPT ![current_page] =
                          FAdd[@, step(n)]]
    /\ visits' = [visits EXCEPT ![current_page] = @ + 1]
    /\ distribution' = transition_model(corpus, current_page, damping_factor)
    /\ current_page' \in Choices(distribution')
    /\ i' = i + 1
    /\ UNCHANGED <<fn, pc, corpus, damping_factor, n, page, difference,
                   start_page, sweep_start, moved, updated>>

SampleReturn ==
    /\ fn = "sample_pagerank" /\ pc = "loop"
    /\ i >= n
    /\ pc' = "done"
    /\ UNCHANGED <<fn, corpus, damping_factor, n, page, distribution,
                   page_ranks, current_page, i, difference, visits,
                   start_page, sweep_start, moved, updated>>

NextSample == SampleError \/ SampleStart \/ SampleStep \/ SampleReturn

SpecSample == InitSample /\ [][NextSample]_vars

\* ---- iterate_pagerank ---------------------------------------------------
InitIter ==
    /\ fn = "iterate_pagerank" /\ pc = "start"
    /\ corpus \in Corpora(MaxPages, MaxLinks)
    /\ damping_factor \in Dampings
    /\ n = 0 /\ page = 0 /\ distribution = <<>> /\ page_ranks = <<>>
    /\ current_page = 0 /\ i = 0 /\ difference = FALSE
    /\ NoHistory

IterStart ==
    /\ fn = "iterate_pagerank" /\ pc = "start"
    /\ page_ranks' = [key \in DOMAIN corpus |->
                          FDiv[One, FromInt[NumPages(corpus)]]]
    /\ difference' = FALSE
    /\ pc' = "while"
    /\ UNCHANGED <<fn, corpus, damping_factor, n, page, distribution,
                   current_page, i, visits, start_page, sweep_start,
                   moved, updated>>

\* while not difference: a sweep begins, or the loop ends
IterWhile ==
    /\ fn = "iterate_pagerank" /\ pc = "while"
    /\ IF ~difference
       THEN /\ pc' = "for"
            /\ page' = 1
            /\ sweep_start' = page_ranks
            /\ moved' = {}
       ELSE /\ pc' = "return"
            /\ UNCHANGED <<page, sweep_start, moved>>
    /\ UNCHANGED <<fn, corpus, damping_factor, n, distribution, page_ranks,
                   current_page, i, difference, visits, start_page,
                   updated>>

\* for page in page_ranks: the body for the next key
IterBody ==
    /\ fn = "iterate_pagerank" /\ pc = "for"
    /\ page \in DOMAIN corpus
    /\ LET new_page_rank ==
               NewPageRank(page, corpus, damping_factor, page_ranks)
           small == SmallChange(page_ranks[page], new_page_rank)
       IN  /\ difference' = small
           /\ page_ranks' = [page_ranks EXCEPT ![page] = new_page_rank]
           /\ moved' = IF small THEN moved ELSE moved \cup {page}
    /\ updated' = updated \cup {page}
    /\ page' = page + 1
    /\ UNCHANGED <<fn, pc, corpus, damping_factor, n, distribution,
                   current_page, i, visits, start_page, sweep_start>>

\* for page in page_ranks: no key is left
IterForEnd ==
    /\ fn = "iterate_pagerank" /\ pc = "for"
    /\ page \notin DOMAIN corpus
    /\ pc' = "while"
    /\ UNCHANGED <<fn, corpus, damping_factor, n, page, distribution,
                   page_ranks, current_page, i, difference, visits,
                   start_page, sweep_start, moved, updated>>

IterReturn ==
    /\ fn = "iterate_pagerank" /\ pc = "return"
    /\ pc' = "done"
    /\ UNCHANGED <<fn, corpus, damping_factor, n, page, distribution,
                   page_ranks, current_page, i, difference, visits,
                   start_page, sweep_start, moved, updated>>

NextIter == IterStart \/ IterWhile \/ IterBody \/ IterForEnd \/ IterReturn

SpecIter == InitIter /\ [][NextIter]_vars

\* The interpreter keeps running the call: a step that can be taken is taken.
FairIter == SpecIter /\ WF_vars(NextIter)

\* ------------------------------------------------------------------------
\* Properties
\* ------------------------------------------------------------------------
\* |x - 1| <= num / den, exactly
NearOne(x, num, den) ==
    XCmp[XMul[XAbsDiff[x, One], <<BFromInt[den], 0>>], <<BFromInt[num], 0>>] <= 0

\* |x - 1| <= k * 2^-52, exactly
WithinUlps(x, k) == XCmp[XAbsDiff[x, One], <<BFromInt[k], -52>>] <= 0

\* The exact sum of the values of a mapping over the pages
SumValues(f) == XSum(f, NumPages(f))

\* The values of f sum to 1, as a program can observe it: the floats added
\* from left to right, each addition rounded, give 1.0 (sum() up to Python
\* 3.11), or their exact sum rounds to 1.0 (math.fsum, and sum() from
\* Python 3.12 on); an exact sum of 1 is an instance of the latter.
SumIsOne(f) ==
    \/ Accumulate(f, NumPages(f)) = One
    \/ RoundX[SumValues(f)] = One

RECURSIVE SumCounts(_, _)
SumCounts(f, k) == IF k = 0 THEN 0 ELSE SumCounts(f, k - 1) + f[k]

\* The float 0 + s + s + ... + s (k times), added as the walk adds a tally
RECURSIVE RepeatAdd(_, _)
RepeatAdd(s, k) == IF k = 0 THEN XZero ELSE FAdd[RepeatAdd(s, k - 1), s]

\* No page of the corpus links to p
NoInbound(p) == \A q \in DOMAIN corpus : p \notin corpus[q]

TMDone == fn = "transition_model" /\ pc = "done"
SampleDone == fn = "sample_pagerank" /\ pc = "done"
IterDone == fn = "iterate_pagerank" /\ pc = "done"

\* The keys are the pages and no value is negative.  A float of the model
\* carries no sign: for a damping factor in (0,1) the code subtracts only
\* damping_factor from 1, so every value is a quotient or a sum of
\* non-negative floats.
KeysAndSigns ==
    /\ DOMAIN distribution = DOMAIN corpus
    /\ \A key \in DOMAIN corpus : XCmp[distribution[key], XZero] >= 0

\* C1: for a non-empty corpus, a page p of it and a damping factor in (0,1),
\* transition_model returns a distribution over exactly the pages of the
\* corpus, with non-negative values whose sum is 1.  The values are floats:
\* their sum is 1 within 1e-9, whether they are added exactly or one after
\* the other as floats.
C1_DistributionSumsToOne ==
    TMDone =>
        /\ KeysAndSigns
        /\ NearOne(SumValues(distribution), 1, 1000000000)
        /\ NearOne(Accumulate(distribution, NumPages(corpus)), 1, 1000000000)

\* C1 witness: a page with links in a corpus of three pages, whose
\* distribution sums to a float next to 1, not to 1.
C1_Witness ==
    /\ TMDone /\ NumPages(corpus) = 3 /\ Cardinality(corpus[page]) = 2
    /\ ~SumIsOne(distribution)

\* C2: for a page without links transition_model returns the uniform
\* distribution: every page of the corpus, the page itself included, gets
\* the float 1 / N, whatever the damping factor is.
C2_SinkIsUniform ==
    (TMDone /\ corpus[page] = {}) =>
        /\ DOMAIN distribution = DOMAIN corpus
        /\ \A key \in DOMAIN corpus :
               distribution[key] = FDiv[One, FromInt[NumPages(corpus)]]

\* C2 witness: a page without links in a corpus of three pages where other
\* pages have links, under the damping factor that is not the default.
C2_Witness ==
    /\ TMDone /\ corpus[page] = {} /\ NumPages(corpus) = 3
    /\ LinkCount(corpus) > 0 /\ damping_factor # DAMPING
    /\ distribution[page] = Lit(1, 3)

\* What the walk of sample_pagerank keeps true: each increment is of a page
\* of the corpus, the first of them of the starting page, i increments have
\* been made after i passes, each tally is 1/n added once per increment of
\* it to 0 and nothing else, and the call returns after exactly n passes
\* (the page drawn in the last pass is never tallied).
WalkTallies ==
    (fn = "sample_pagerank" /\ pc \in {"loop", "done"} /\ n >= 1) =>
        /\ DOMAIN page_ranks = DOMAIN corpus
        /\ current_page \in DOMAIN corpus
        /\ start_page \in DOMAIN corpus
        /\ SumCounts(visits, NumPages(corpus)) = i
        /\ i = 0 => current_page = start_page
        /\ i >= 1 => visits[start_page] >= 1
        /\ \A p \in DOMAIN corpus :
               page_ranks[p] = RepeatAdd(FDiv[One, FromInt[n]], visits[p])
        /\ pc = "done" => i = n

\* C3 as stated: for a non-empty corpus and n >= 1 the tallies that
\* sample_pagerank returns sum to exactly 1, the walk having made exactly n
\* increments of 1/n, each of a page of the corpus, the starting page first.
C3_TalliesSumToExactlyOne ==
    /\ WalkTallies
    /\ (SampleDone /\ n >= 1) => SumIsOne(page_ranks)

\* C3 amended: the walk makes exactly n increments of the float 1/n, each of
\* a page of the corpus, the starting page first, and the returned tallies
\* sum to 1 within n * 2^-52, whether they are added exactly or as floats
\* (not to exactly 1: 1/n and each addition are rounded).
C3_TalliesSumToOneRounded ==
    /\ WalkTallies
    /\ (SampleDone /\ n >= 1) =>
           /\ WithinUlps(SumValues(page_ranks), n)
           /\ WithinUlps(Accumulate(page_ranks, NumPages(corpus)), n)

\* C3 witness: a walk of at least two passes over two pages, both tallied,
\* that has returned tallies which do not sum to 1.
C3_Witness ==
    /\ SampleDone /\ n >= 2 /\ NumPages(corpus) = 2
    /\ visits[1] >= 1 /\ visits[2] >= 1
    /\ ~SumIsOne(page_ranks)

\* C4: for a non-empty corpus, with or without pages that have no links, the
\* ranks iterate_pagerank returns sum to 1 within 0.001.
C4_IterateSumsToOne ==
    IterDone => NearOne(SumValues(page_ranks), 1, 1000)

\* C5: for a corpus of one page both estimators (sample_pagerank for n >= 1)
\* return rank 1 for that page.
C5_SinglePageHasRankOne ==
    (pc = "done" /\ NumPages(corpus) = 1 /\ (fn = "sample_pagerank" => n >= 1))
        => page_ranks[1] = One

\* C6: every call of iterate_pagerank ends, on every corpus, the empty one
\* included: it returns or it reports an error.
C6_IterateEnds == <>(pc \in {"done", "error"})

\* C7: sample_pagerank with n < 1 on a non-empty corpus ends in an error
\* before any increment, and never returns a rank mapping.
C7_SmallCountIsAnError ==
    (fn = "sample_pagerank" /\ n < 1 /\ NumPages(corpus) >= 1) => pc # "done"

C9_ReturnsAfterQuietSweep == IterDone => moved = {}

\* C10: in a sweep every new rank is computed from the ranks as they were
\* when the sweep began: the pages already assigned in the sweep hold the
\* value the update gives on that snapshot.
C10_SweepReadsSnapshot ==
    (fn = "iterate_pagerank" /\ pc = "for") =>
        \A p \in DOMAIN corpus :
            p < page =>
                page_ranks[p] =
                    NewPageRank(p, corpus, damping_factor, sweep_start)

====
